---- MODULE Spec2Model ----
(***************************************************************************)
(* Model of 02.10-coroutineParsingDataStream0/main.cpp: the Parse          *)
(* coroutine (an async_generator<std::string, byte>), the sender           *)
(* generator<byte>, the range-for driver ProcessStream and main.           *)
(***************************************************************************)
EXTENDS Integers, Sequences, FiniteSets, TLC

\* ------------------------------------------------------------------ bytes
ESC == 72
SOF == 16
B70 == 112
B07 == 7
B99 == 153

\* the two data bytes of main's streams used as the data alphabet
Data == {B70, B99}
Bytes == {ESC, SOF} \cup Data

\* ----------------------------------------------------------------- bounds
MaxLen == 5
MaxData == 2
MaxFrame == 1

SeqsUpTo(S, n) == UNION {[1..k -> S] : k \in 0..n}

\* static_cast<char>(b) with a signed 8-bit char
ToChar(b) == IF b >= 128 THEN b - 256 ELSE b

\* the byte pattern of a stored char (static_cast<unsigned char>)
ToByte(ch) == ch % 256

\* the bytes of a std::string
StringBytes(s) == [k \in 1..Len(s) |-> ToByte(s[k])]

\* --------------------------------------------------- the Parse coroutine
\* A coroutine frame of Parse with its promise:
\*   pc            the suspension point ("initial", an await at a source line,
\*                 the yield at line 191, "final", or "abort" after a failed assert)
\*   frame         the local std::string frame (<<>> while it is out of scope)
\*   mValue        promise_type_base::mValue
\*   mRecentSignal awaitable_promise_type_base::mRecentSignal (<<>> is nullopt)
\*   tmp           the value the last await_resume returned (<<>> before the first)
NewParse == [pc |-> "initial", frame |-> <<>>, mValue |-> <<>>, mRecentSignal |-> <<>>,
             tmp |-> <<>>]

RECURSIVE CoAwait(_, _)

\* variant of yield_value: the value is not stored
yield_value_Stale(c, value) == [c EXCEPT !.pc = "L191"]

\* promise_type_base::yield_value reached from co_yield frame: the value is
\* stored and the coroutine suspends at line 191
yield_value(c, value) == [c EXCEPT !.mValue = value, !.pc = "L191"]

\* variant of Parse_L175: the test for ESC inverted
Parse_L175_Inverted(c, b) ==
  IF ESC # b
  THEN CoAwait([c EXCEPT !.frame = <<>>], "L179")
  ELSE CoAwait([c EXCEPT !.frame = <<>>], "L175")

\* Parse after the co_await of line 175 returned b: a new frame string, then
\* the test for ESC; any other byte ends the iteration
Parse_L175(c, b) ==
  IF ESC = b
  THEN CoAwait([c EXCEPT !.frame = <<>>], "L179")
  ELSE CoAwait([c EXCEPT !.frame = <<>>], "L175")

\* variant of Parse_L179: an ESC is taken as the start of a new start sequence
Parse_L179_EscRestarts(c, b) ==
  IF SOF # b
  THEN IF ESC = b
       THEN CoAwait([c EXCEPT !.frame = <<>>], "L179")
       ELSE CoAwait([c EXCEPT !.frame = <<>>], "L175")
  ELSE CoAwait(c, "L184")

\* Parse after the co_await of line 179 returned b: continue unless SOF
Parse_L179(c, b) ==
  IF SOF # b
  THEN CoAwait([c EXCEPT !.frame = <<>>], "L175")
  ELSE CoAwait(c, "L184")

\* variant of Parse_L184: the ESC is appended instead of skipped
Parse_L184_KeepEsc(c, b) ==
  IF ESC = b
  THEN CoAwait([c EXCEPT !.frame = Append(@, ToChar(b))], "L188")
  ELSE CoAwait([c EXCEPT !.frame = Append(@, ToChar(b))], "L184")

\* Parse after the co_await of line 184 returned b: ESC is skipped and the
\* next byte looked at, any other byte is appended to frame
Parse_L184(c, b) ==
  IF ESC = b
  THEN CoAwait(c, "L188")
  ELSE CoAwait([c EXCEPT !.frame = Append(@, ToChar(b))], "L184")

\* variant of Parse_L188: out of sync goes on capturing instead of breaking
Parse_L188_NoBreak(c, b) ==
  IF SOF = b
  THEN yield_value(c, c.frame)
  ELSE IF ESC # b
       THEN CoAwait(c, "L184")
       ELSE CoAwait([c EXCEPT !.frame = Append(@, ToChar(b))], "L184")

\* variant of Parse_L188: a second ESC is dropped and the parser keeps waiting at line 188
Parse_L188_DropEsc(c, b) ==
  IF SOF = b
  THEN yield_value(c, c.frame)
  ELSE IF ESC # b
       THEN CoAwait([c EXCEPT !.frame = <<>>], "L175")
       ELSE CoAwait(c, "L188")

\* variant of Parse_L188: out of sync returns from the coroutine instead of breaking
Parse_L188_Return(c, b) ==
  IF SOF = b
  THEN yield_value(c, c.frame)
  ELSE IF ESC # b
       THEN [c EXCEPT !.frame = <<>>, !.pc = "final"]
       ELSE CoAwait([c EXCEPT !.frame = Append(@, ToChar(b))], "L184")

\* variant of Parse_L188: both bytes of an ESC ESC pair are appended
Parse_L188_BothEsc(c, b) ==
  IF SOF = b
  THEN yield_value(c, c.frame)
  ELSE IF ESC # b
       THEN CoAwait([c EXCEPT !.frame = <<>>], "L175")
       ELSE CoAwait([c EXCEPT !.frame = Append(Append(@, ToChar(ESC)), ToChar(b))], "L184")

\* Parse after the co_await of line 188 returned b: SOF yields the frame, a
\* byte other than ESC breaks out of the capture loop (frame goes out of
\* scope), ESC falls through to frame += and the capture loop goes on
Parse_L188(c, b) ==
  IF SOF = b
  THEN yield_value(c, c.frame)
  ELSE IF ESC # b
       THEN CoAwait([c EXCEPT !.frame = <<>>], "L175")
       ELSE CoAwait([c EXCEPT !.frame = Append(@, ToChar(b))], "L184")

\* the code of Parse that follows the co_await at line `at`, which returned b
Parse(c, at, b) ==
  CASE at = "L175" -> Parse_L175(c, b)
    [] at = "L179" -> Parse_L179(c, b)
    [] at = "L184" -> Parse_L184(c, b)
    [] at = "L188" -> Parse_L188(c, b)

\* awaiter::await_resume: assert, take the signal and reset the slot
await_resume(c, at) ==
  IF c.mRecentSignal = <<>>
  THEN [c EXCEPT !.pc = "abort"]
  ELSE Parse([c EXCEPT !.mRecentSignal = <<>>, !.tmp = c.mRecentSignal], at,
             c.mRecentSignal[1])

\* variant of CoAwait: await_ready always false
CoAwait_AlwaysSuspend(c, at) == [c EXCEPT !.pc = at]

\* co_await byte{} at line `at`: await_ready decides between going on and
\* suspending (await_suspend does nothing)
CoAwait(c, at) ==
  IF c.mRecentSignal # <<>>
  THEN await_resume(c, at)
  ELSE [c EXCEPT !.pc = at]

\* coroutine_handle::done
done(c) == c.pc = "final"

\* variant of resume: no break after co_yield, the capture loop goes on
resume_NoBreakAfterYield(c) ==
  CASE c.pc = "initial" -> CoAwait(c, "L175")
    [] c.pc = "L191" -> CoAwait([c EXCEPT !.frame = Append(@, ToChar(SOF))], "L184")
    [] c.pc \in {"L175", "L179", "L184", "L188"} -> await_resume(c, c.pc)
    [] OTHER -> c

\* variant of resume: the byte that resumes the coroutine at the yield is not awaited
resume_YieldDropsByte(c) ==
  CASE c.pc = "initial" -> CoAwait(c, "L175")
    [] c.pc = "L191" -> [c EXCEPT !.frame = <<>>, !.pc = "L175", !.mRecentSignal = <<>>]
    [] c.pc \in {"L175", "L179", "L184", "L188"} -> await_resume(c, c.pc)
    [] OTHER -> c

\* coroutine_handle::resume of the Parse coroutine
resume(c) ==
  CASE c.pc = "initial" -> CoAwait(c, "L175")
    [] c.pc = "L191" -> CoAwait([c EXCEPT !.frame = <<>>], "L175")
    [] c.pc \in {"L175", "L179", "L184", "L188"} -> await_resume(c, c.pc)
    [] OTHER -> c

\* variant of SendSignalOp: the signal is not stored
SendSignalOp_NoStore(c, signal) == IF ~done(c) THEN resume(c) ELSE c

\* variant of SendSignalOp: the coroutine is resumed before the signal is stored
SendSignalOp_ResumeFirst(c, signal) ==
  LET c1 == IF ~done(c) THEN resume(c) ELSE c
  IN  [c1 EXCEPT !.mRecentSignal = <<signal>>]

\* async_generator::SendSignal
SendSignalOp(c, signal) ==
  LET c1 == [c EXCEPT !.mRecentSignal = <<signal>>]
  IN  IF ~done(c1) THEN resume(c1) ELSE c1

\* variant of PollValue: mValue cleared before it is read
PollValue_Cleared(c) == <<>>

\* async_generator::operator(): the value returned (tmp, moved from mValue)
PollValue(c) == c.mValue

\* variant of PollState: mValue left as it was
PollState_NoClear(c) == c

\* async_generator::operator(): the state left (mValue moved from and cleared)
PollState(c) == [c EXCEPT !.mValue = <<>>]

\* the parser is between frames: the next byte is read at line 175
Idle(c) == c.pc \in {"initial", "L175", "L191"}

\* ------------------------------------------------- the sender generator
\* A coroutine frame of sender with its promise; mValue is <<>> until the
\* first co_yield sets it.
NewSender(fakeBytes) == [fakeBytes |-> fakeBytes, i |-> 0, pc |-> "initial", mValue |-> <<>>]

\* variant of SenderResume: the loop ends one element early
SenderResume_SkipLast(g) ==
  IF g.pc \in {"initial", "L207"}
  THEN IF g.i + 1 < Len(g.fakeBytes)
       THEN [g EXCEPT !.i = @ + 1, !.mValue = <<g.fakeBytes[g.i + 1]>>, !.pc = "L207"]
       ELSE [g EXCEPT !.pc = "final"]
  ELSE g

\* coroutine_handle::resume of the sender coroutine: the next step of the
\* range-for over fakeBytes, up to the next co_yield or the final suspend
SenderResume(g) ==
  IF g.pc \in {"initial", "L207"}
  THEN IF g.i < Len(g.fakeBytes)
       THEN [g EXCEPT !.i = @ + 1, !.mValue = <<g.fakeBytes[g.i + 1]>>, !.pc = "L207"]
       ELSE [g EXCEPT !.pc = "final"]
  ELSE g

\* coro_iterator::iterator::resume: the generator resumed, and mDone
IteratorResume(g) == [gen |-> SenderResume(g), mDone |-> SenderResume(g).pc = "final"]

\* ------------------------------------------------------------- inputs
\* main's two streams
fakeBytes1 == <<B70, ESC, SOF, ESC, 72, 101, 108, 108, 111, ESC, SOF, B07, ESC, SOF>>
fakeBytes2 == <<87, 111, 114, 108, 100, ESC, SOF, B99>>

\* the ways to cut a byte sequence into a first and a second stream
Splits(s) == {<<SubSeq(s, 1, k), SubSeq(s, k + 1, Len(s))>> : k \in 0..Len(s)}

\* every split of every byte sequence of at most MaxLen bytes
SmallInputs == UNION {Splits(s) : s \in SeqsUpTo(Bytes, MaxLen)}

\* ESC SOF <data> ESC SOF
Framed(D) == <<ESC, SOF>> \o D \o <<ESC, SOF>>

\* the non-empty data sequences without an ESC byte, of at most MaxData bytes
FrameData == SeqsUpTo(Bytes \ {ESC}, MaxData) \ {<<>>}

\* byte sequences that leave a new parser between frames: nothing, a data
\* byte, a malformed start, a whole frame, a frame given up as out of sync
IdlePrefixes ==
  {<<>>, <<B70>>, <<ESC, B99>>, <<ESC, SOF, B70, ESC, SOF>>, <<ESC, SOF, B70, ESC, B99>>}

\* a first stream that leaves the parser between frames, then one frame
FramedInputs == {<<P, Framed(D)>> : P \in IdlePrefixes, D \in FrameData}

\* ESC SOF d1 d2 ESC X with X neither SOF nor ESC
Desync(d1, d2, X) == <<ESC, SOF, d1, d2, ESC, X>>

\* a frame given up as out of sync, then one frame
DesyncInputs ==
  {<<Desync(d1, d2, X), Framed(D)>> :
     d1 \in Bytes \ {ESC}, d2 \in Bytes \ {ESC}, X \in Bytes \ {ESC, SOF}, D \in FrameData}

\* one frame cut anywhere
SplitInputs == UNION {Splits(Framed(D)) : D \in FrameData}

\* byte stuffing: every ESC of s doubled
RECURSIVE Stuff(_)
Stuff(s) ==
  IF s = <<>> THEN <<>>
  ELSE (IF Head(s) = ESC THEN <<ESC, ESC>> ELSE <<Head(s)>>) \o Stuff(Tail(s))

\* the non-empty data sequences over all bytes, of at most MaxData bytes
AnyData == SeqsUpTo(Bytes, MaxData) \ {<<>>}

\* a first stream that leaves the parser between frames, then one frame whose
\* data is byte-stuffed
StuffedInputs == {<<P, Framed(Stuff(D))>> : P \in IdlePrefixes, D \in AnyData}

\* two frames back to back in one stream
BackToBackInputs == {<<Framed(D1) \o Framed(D2), <<>>>> : D1 \in FrameData, D2 \in FrameData}

Inputs ==
  SmallInputs \cup {<<fakeBytes1, fakeBytes2>>} \cup FramedInputs \cup DesyncInputs
    \cup SplitInputs \cup BackToBackInputs \cup StuffedInputs

\* ------------------------------------------------------------- state
VARIABLES
  streams,    \* the byte vectors main feeds, in order
  dpc,        \* where main / ProcessStream stands
  sn,         \* the number of the ProcessStream call (0 before the first)
  stream,     \* the generator<byte> of the current call
  mDone,      \* coro_iterator::iterator::mDone of the range-for's iterator
  parse,      \* the FSM p created by main
  res,        \* the result of the last poll in ProcessStream
  signals,    \* log of the SendSignal calls: [call, byte]
  handled,    \* log of the HandleFrame calls: [call, frame]
  emitted,    \* log of the co_yield frame statements reached: [call, frame]
  raw,        \* the bytes signalled since the parser last read a byte at line 175
  idleAtCall, \* whether the parser was between frames when ProcessStream was called
  api         \* what a caller of SendSignal and operator() has seen last

driverVars == <<streams, dpc, sn, stream, mDone, res, signals, handled, emitted, raw, idleAtCall>>

vars == <<streams, dpc, sn, stream, mDone, parse, res, signals, handled, emitted, raw,
          idleAtCall, api>>

NewApi == [lastOp |-> "none", lastPoll |-> <<>>, prevOp |-> "none", prevPoll |-> <<>>,
           fresh |-> FALSE, polledFresh |-> FALSE, lastSignal |-> <<>>,
           resumedFrom |-> "none"]

Init ==
  /\ streams \in Inputs
  /\ dpc = "main"
  /\ sn = 0
  /\ stream = NewSender(<<>>)
  /\ mDone = TRUE
  /\ parse = NewParse
  /\ res = <<>>
  /\ signals = <<>>
  /\ handled = <<>>
  /\ emitted = <<>>
  /\ raw = <<>>
  /\ idleAtCall = FALSE
  /\ api = NewApi

\* variant of MainCall: a new parser for each stream
MainCall_Reset ==
  /\ dpc = "main"
  /\ sn < Len(streams)
  /\ sn' = sn + 1
  /\ stream' = NewSender(streams[sn + 1])
  /\ dpc' = "begin"
  /\ parse' = NewParse
  /\ idleAtCall' = TRUE
  /\ UNCHANGED <<streams, mDone, res, signals, handled, emitted, raw, api>>

\* main: the next sender(...) is created and ProcessStream is called
MainCall ==
  /\ dpc = "main"
  /\ sn < Len(streams)
  /\ sn' = sn + 1
  /\ stream' = NewSender(streams[sn + 1])
  /\ dpc' = "begin"
  /\ idleAtCall' = Idle(parse)
  /\ UNCHANGED <<streams, mDone, parse, res, signals, handled, emitted, raw, api>>

\* main returns after the last ProcessStream call
MainReturn ==
  /\ dpc = "main"
  /\ sn = Len(streams)
  /\ dpc' = "done"
  /\ UNCHANGED <<streams, sn, stream, mDone, parse, res, signals, handled, emitted, raw, idleAtCall, api>>

\* generator::begin(): the iterator is constructed and resumes the coroutine
Begin ==
  /\ dpc = "begin"
  /\ stream' = IteratorResume(stream).gen
  /\ mDone' = IteratorResume(stream).mDone
  /\ dpc' = "test"
  /\ UNCHANGED <<streams, sn, parse, res, signals, handled, emitted, raw, idleAtCall, api>>

\* the range-for's test it != end(), where end() has mDone = true
LoopEnter ==
  /\ dpc = "test"
  /\ mDone # TRUE
  /\ dpc' = "signal"
  /\ UNCHANGED <<streams, sn, stream, mDone, parse, res, signals, handled, emitted, raw, idleAtCall, api>>

LoopExit ==
  /\ dpc = "test"
  /\ mDone = TRUE
  /\ dpc' = "main"
  /\ UNCHANGED <<streams, sn, stream, mDone, parse, res, signals, handled, emitted, raw, idleAtCall, api>>

\* parse.SendSignal(b) with b = *it
SendSignal ==
  /\ dpc = "signal"
  /\ parse' = SendSignalOp(parse, stream.mValue[1])
  /\ signals' = Append(signals, [call |-> sn, byte |-> stream.mValue[1]])
  /\ raw' = IF Idle(parse) THEN <<stream.mValue[1]>> ELSE Append(raw, stream.mValue[1])
  /\ emitted' = IF parse'.pc = "L191"
                THEN Append(emitted, [call |-> sn, frame |-> parse'.frame])
                ELSE emitted
  /\ dpc' = "poll"
  /\ UNCHANGED <<streams, sn, stream, mDone, res, handled, idleAtCall, api>>

\* const auto& res = parse(); res.length()
Poll ==
  /\ dpc = "poll"
  /\ res' = PollValue(parse)
  /\ parse' = PollState(parse)
  /\ dpc' = IF Len(res') # 0 THEN "handle" ELSE "incr"
  /\ UNCHANGED <<streams, sn, stream, mDone, signals, handled, emitted, raw, idleAtCall, api>>

\* HandleFrame(res)
HandleFrame ==
  /\ dpc = "handle"
  /\ handled' = Append(handled, [call |-> sn, frame |-> res])
  /\ dpc' = "incr"
  /\ UNCHANGED <<streams, sn, stream, mDone, parse, res, signals, emitted, raw, idleAtCall, api>>

\* ++it
Increment ==
  /\ dpc = "incr"
  /\ stream' = IteratorResume(stream).gen
  /\ mDone' = IteratorResume(stream).mDone
  /\ dpc' = "test"
  /\ UNCHANGED <<streams, sn, parse, res, signals, handled, emitted, raw, idleAtCall, api>>

Next ==
  \/ MainCall
  \/ MainReturn
  \/ Begin
  \/ LoopEnter
  \/ LoopExit
  \/ SendSignal
  \/ Poll
  \/ HandleFrame
  \/ Increment

Spec == Init /\ [][Next]_vars

\* main is one thread that runs until it returns: a step that can be taken is taken
FairSpec == Spec /\ WF_vars(Next)

\* ----------------------------------------- the two entry points, called freely
\* A caller other than ProcessStream: SendSignal and operator() in any order.
InitApi ==
  /\ streams = <<>>
  /\ dpc = "api"
  /\ sn = 0
  /\ stream = NewSender(<<>>)
  /\ mDone = TRUE
  /\ parse = NewParse
  /\ res = <<>>
  /\ signals = <<>>
  /\ handled = <<>>
  /\ emitted = <<>>
  /\ raw = <<>>
  /\ idleAtCall = FALSE
  /\ api = NewApi

\* p.SendSignal(b) for any byte b; frames longer than MaxFrame are not explored
ApiSendSignal ==
  /\ dpc = "api"
  /\ \E b \in Bytes :
       /\ Len(SendSignalOp(parse, b).frame) <= MaxFrame
       /\ parse' = SendSignalOp(parse, b)
       /\ api' = [api EXCEPT !.lastOp = "signal", !.prevOp = api.lastOp,
                             !.fresh = api.fresh \/ parse'.pc = "L191",
                             !.lastSignal = <<b>>, !.resumedFrom = parse.pc]
  /\ UNCHANGED driverVars

\* p() : the caller keeps the value returned
ApiPoll ==
  /\ dpc = "api"
  /\ parse' = PollState(parse)
  /\ api' = [lastOp |-> "poll", lastPoll |-> PollValue(parse),
             prevOp |-> api.lastOp, prevPoll |-> api.lastPoll,
             fresh |-> FALSE, polledFresh |-> api.fresh,
             lastSignal |-> api.lastSignal, resumedFrom |-> api.resumedFrom]
  /\ UNCHANGED driverVars

NextApi ==
  \/ ApiSendSignal
  \/ ApiPoll

SpecApi == InitApi /\ [][NextApi]_vars

\* ------------------------------------------------------------ helpers
\* the frames HandleFrame received during ProcessStream call k
RECURSIVE FramesOf(_, _)
FramesOf(log, k) ==
  IF log = <<>> THEN <<>>
  ELSE IF Head(log).call = k
       THEN <<Head(log).frame>> \o FramesOf(Tail(log), k)
       ELSE FramesOf(Tail(log), k)

\* the bytes SendSignal received during ProcessStream call k
RECURSIVE BytesOf(_, _)
BytesOf(log, k) ==
  IF log = <<>> THEN <<>>
  ELSE IF Head(log).call = k
       THEN <<Head(log).byte>> \o BytesOf(Tail(log), k)
       ELSE BytesOf(Tail(log), k)

\* all frames HandleFrame received, in order
AllFrames == [k \in 1..Len(handled) |-> handled[k].frame]

\* all bytes SendSignal received, in order
AllBytes == [k \in 1..Len(signals) |-> signals[k].byte]

\* the bytes of each frame of a list of frames
FrameBytes(fs) == [k \in 1..Len(fs) |-> StringBytes(fs[k])]

\* s is ESC SOF <data> ESC SOF with non-empty data that holds no ESC
IsFramed(s) ==
  /\ Len(s) >= 5
  /\ s[1] = ESC /\ s[2] = SOF
  /\ s[Len(s) - 1] = ESC /\ s[Len(s)] = SOF
  /\ \A k \in 3..(Len(s) - 2) : s[k] # ESC

\* the data of ESC SOF <data> ESC SOF
FrameDataOf(s) == SubSeq(s, 3, Len(s) - 2)

\* s is ESC SOF d1 d2 ESC X with d1, d2 not ESC and X neither SOF nor ESC
IsDesync(s) ==
  /\ Len(s) = 6
  /\ s[1] = ESC /\ s[2] = SOF
  /\ s[3] # ESC /\ s[4] # ESC
  /\ s[5] = ESC /\ s[6] \notin {ESC, SOF}

\* ProcessStream's loop body applied to the bytes of s in order, as one call:
\* st is [parse, frames], frames being the arguments HandleFrame received;
\* a failed assert ends the program
RECURSIVE ProcessStreamOp(_, _)
ProcessStreamOp(st, s) ==
  IF st.parse.pc = "abort" \/ s = <<>> THEN st
  ELSE LET c1 == SendSignalOp(st.parse, Head(s))
           r == PollValue(c1)
       IN  ProcessStreamOp([parse |-> PollState(c1),
                            frames |-> IF Len(r) # 0 THEN Append(st.frames, r) ELSE st.frames],
                           Tail(s))

\* a ProcessStream call has returned
Returned == dpc = "main" /\ sn >= 1

\* --------------------------------------------------------------- claims
\* "Hello" and "World" as the chars of a std::string
Hello == <<72, 101, 108, 108, 111>>
World == <<87, 111, 114, 108, 100>>

\* C1: with main's two streams fed to one parser, the first ProcessStream call
\* invokes HandleFrame exactly once, with "Hello", the second exactly once
\* more, with "World", and no other frame is ever handled.
C1_WorkedExample ==
  streams = <<fakeBytes1, fakeBytes2>> =>
    /\ handled \in {<<>>,
                    <<[call |-> 1, frame |-> Hello]>>,
                    <<[call |-> 1, frame |-> Hello], [call |-> 2, frame |-> World]>>}
    /\ (Returned /\ sn = 1 => handled = <<[call |-> 1, frame |-> Hello]>>)
    /\ (dpc = "done" =>
          handled = <<[call |-> 1, frame |-> Hello], [call |-> 2, frame |-> World]>>)

C1_Witness ==
  /\ streams = <<fakeBytes1, fakeBytes2>>
  /\ dpc = "done"
  /\ Len(handled) = 2

\* C2: when ProcessStream is called with the parser between frames and the
\* stream is ESC SOF D ESC SOF, D non-empty and without ESC, the call yields
\* exactly one frame and hands exactly one frame to HandleFrame, equal to D
\* byte for byte.
C2_OneFrameEqualsData ==
  (Returned /\ idleAtCall /\ IsFramed(streams[sn])) =>
    /\ FrameBytes(FramesOf(handled, sn)) = <<FrameDataOf(streams[sn])>>
    /\ FrameBytes(FramesOf(emitted, sn)) = <<FrameDataOf(streams[sn])>>

C2_Witness ==
  /\ Returned /\ sn = 2 /\ idleAtCall
  /\ streams[1] = <<ESC, SOF, B70, ESC, SOF>>
  /\ streams[2] = Framed(<<B99, SOF>>)
  /\ FramesOf(handled, 2) # <<>>

\* C3: after ESC SOF d1 d2 ESC X (X neither SOF nor ESC) signalled to a new
\* parser, no frame was emitted or handled, the frame buffer is empty and the
\* parser waits at line 175; a following ESC SOF <data> ESC SOF is emitted and
\* handled as one frame equal to <data> alone.
C3_Desync ==
  IsDesync(streams[1]) =>
    /\ (Returned /\ sn = 1 =>
          /\ handled = <<>> /\ emitted = <<>>
          /\ parse.pc = "L175" /\ parse.frame = <<>> /\ parse.mValue = <<>>)
    /\ (Returned /\ sn = 2 /\ IsFramed(streams[2]) =>
          /\ FrameBytes(AllFrames) = <<FrameDataOf(streams[2])>>
          /\ Len(emitted) = 1)

C3_Witness ==
  /\ IsDesync(streams[1]) /\ IsFramed(streams[2])
  /\ streams[1][3] # streams[1][4]
  /\ Returned /\ sn = 2
  /\ Len(handled) = 1

\* C4: running ProcessStream on a source for A and then on a source for B
\* against one parser hands HandleFrame the same frames in the same order,
\* and leaves the parser in the same state, as one run over A ++ B.
C4_SplitEquivalence ==
  dpc = "done" =>
    LET one == ProcessStreamOp([parse |-> NewParse, frames |-> <<>>],
                               streams[1] \o streams[2])
    IN  /\ AllFrames = one.frames
        /\ parse = one.parse

\* a frame opened in A and closed in B, with data bytes of both
C4_Witness ==
  /\ dpc = "done"
  /\ streams = <<<<ESC, SOF, B70>>, <<B99, ESC, SOF>>>>
  /\ handled = <<[call |-> 2, frame |-> <<ToChar(B70), ToChar(B99)>>]>>

\* C5: a poll that no newly completed frame precedes since the previous poll
\* returns the empty value, and of two polls with no signal in between at
\* most one returns a non-empty frame.
C5_PollOnce ==
  /\ (api.lastOp = "poll" /\ ~api.polledFresh => api.lastPoll = <<>>)
  /\ (api.lastOp = "poll" /\ api.prevOp = "poll" =>
        ~(api.lastPoll # <<>> /\ api.prevPoll # <<>>))

\* a poll returned a frame and the poll right after it returned nothing
C5_Witness ==
  /\ api.lastOp = "poll" /\ api.prevOp = "poll"
  /\ api.prevPoll # <<>> /\ api.lastPoll = <<>>

\* C6: when a ProcessStream call has returned, HandleFrame was called exactly
\* once for each frame the parser completed (each co_yield reached, a frame
\* with no data bytes included), with that frame's content.
C6_HandlerPerFrame == Returned => handled = emitted

\* no byte of s is ESC or SOF
NoMarker(s) == \A k \in 1..Len(s) : s[k] \notin {ESC, SOF}

\* C7: when ProcessStream is called with the parser between frames and no byte
\* signalled so far in the call is ESC or SOF, no frame was emitted or handled
\* in the call and the parser is between frames, waiting at line 175 once it
\* has taken a byte.
C7_NoMarkerNoFrame ==
  (sn >= 1 /\ idleAtCall /\ NoMarker(BytesOf(signals, sn))) =>
    /\ FramesOf(handled, sn) = <<>>
    /\ FramesOf(emitted, sn) = <<>>
    /\ parse.mValue = <<>>
    /\ Idle(parse)
    /\ (BytesOf(signals, sn) # <<>> => parse.pc = "L175" /\ parse.frame = <<>>)

\* data bytes only, after a frame left the parser at the yield
C7_Witness ==
  /\ Returned /\ sn = 2 /\ idleAtCall
  /\ emitted # <<>>
  /\ Len(BytesOf(signals, 2)) >= 1
  /\ NoMarker(BytesOf(signals, 2))

\* C8 as stated: no emitted frame holds an ESC byte or an SOF byte.
C8_NoMarkerInFrame ==
  \A k \in 1..Len(emitted) : NoMarker(StringBytes(emitted[k].frame))

\* C8 amended: when a frame is emitted, the bytes signalled from its opening
\* ESC to its closing SOF are ESC, SOF, the frame with every ESC doubled, ESC,
\* SOF: the frame holds neither the delimiters nor the escaping ESC bytes, but
\* it holds the SOF bytes received as data and one ESC for each ESC ESC pair.
C8_FrameIsUnstuffedData ==
  parse.pc = "L191" =>
    /\ emitted # <<>>
    /\ emitted[Len(emitted)].frame = parse.frame
    /\ raw = Framed(Stuff(StringBytes(parse.frame)))

\* the frame "Hello" of main, whose first byte is the ESC byte
C8_Witness ==
  /\ parse.pc = "L191"
  /\ parse.frame = Hello
  /\ ~NoMarker(StringBytes(parse.frame))

\* p is an initial part of s
IsPrefix(p, s) == Len(p) <= Len(s) /\ p = SubSeq(s, 1, Len(p))

\* The sender generator produces the bytes of its vector once each and in
\* order and reports exhaustion right after the last one (at once for an empty
\* vector), so that a ProcessStream call has signalled exactly the bytes of its
\* stream, in order, when it returns.
C9_Delivered ==
  sn >= 1 =>
    LET sent == BytesOf(signals, sn)
    IN  /\ IsPrefix(sent, streams[sn])
        /\ \A k \in 1..(sn - 1) : BytesOf(signals, k) = streams[k]
        /\ (dpc = "test" => (mDone <=> sent = streams[sn]))
        /\ (dpc = "signal" => stream.mValue = <<streams[sn][Len(sent) + 1]>>)
        /\ (dpc \in {"main", "done"} => sent = streams[sn] /\ stream.pc = "final")

\* C9: iterating sender(S) from begin() to end() produces exactly the bytes of
\* S, once each and in order, then reports exhaustion; ProcessStream signals
\* exactly those bytes in that order, and every ProcessStream call returns.
C9_SenderDelivers ==
  /\ []C9_Delivered
  /\ ((dpc = "begin") ~> (dpc = "main"))

\* an empty stream, then a stream of several bytes, both drained
C9_Witness ==
  /\ dpc = "done"
  /\ streams[1] = <<>>
  /\ Len(streams[2]) >= 3
  /\ BytesOf(signals, 2) = streams[2]

\* C10 as stated: an ESC received at line 188 leaves the parser at line 188
\* and the frame buffer as it was.
C10_EscEscStays ==
  [][(dpc = "signal" /\ parse.pc = "L188" /\ stream.mValue = <<ESC>>) =>
       (parse'.pc = "L188" /\ parse'.frame = parse.frame)]_vars

\* C10 amended: an ESC received at line 188 is appended to the frame buffer
\* and the parser goes back to line 184; an SOF received at line 184, so also
\* one right after ESC ESC, is appended as data and completes no frame.
C10_EscEscAppendsEsc ==
  [][/\ (dpc = "signal" /\ parse.pc = "L188" /\ stream.mValue = <<ESC>>) =>
          /\ parse'.pc = "L184"
          /\ parse'.frame = Append(parse.frame, ToChar(ESC))
          /\ emitted' = emitted
     /\ (dpc = "signal" /\ parse.pc = "L184" /\ stream.mValue = <<SOF>>) =>
          /\ parse'.pc = "L184"
          /\ parse'.frame = Append(parse.frame, ToChar(SOF))
          /\ emitted' = emitted]_vars

\* ESC SOF ESC ESC SOF: the frame buffer holds ESC and SOF, nothing is emitted
C10_Witness ==
  /\ raw = <<ESC, SOF, ESC, ESC, SOF>>
  /\ parse.pc = "L184"
  /\ parse.frame = <<ToChar(ESC), ToChar(SOF)>>
  /\ emitted = <<>>

\* the suspension points of Parse at a co_await
AwaitPoints == {"L175", "L179", "L184", "L188"}

\* a byte other than SOF received at line 179 sends the parser back to line
\* 175 with no frame buffer; nothing is yielded and no assert fails
C11_BackToIdle ==
  (dpc = "signal" /\ parse.pc = "L179" /\ stream.mValue # <<SOF>>) =>
    /\ parse'.pc = "L175"
    /\ parse'.frame = <<>>
    /\ parse'.mValue = parse.mValue
    /\ emitted' = emitted

\* ESC, ESC, SOF signalled to a parser between frames starts no frame
C11_EscEscSofIdle ==
  (sn >= 1 /\ idleAtCall /\ BytesOf(signals, sn) = <<ESC, ESC, SOF>>) =>
    /\ parse.pc = "L175"
    /\ parse.frame = <<>>
    /\ FramesOf(emitted, sn) = <<>>
    /\ FramesOf(handled, sn) = <<>>

\* C11: in AwaitingSOF (line 179) every byte other than SOF, ESC included, is
\* discarded and the parser returns to Idle (line 175); so ESC, ESC, SOF from
\* Idle starts no frame, emits nothing and fails no assert.
C11_MalformedStart ==
  /\ [][C11_BackToIdle]_vars
  /\ []C11_EscEscSofIdle
  /\ [](parse.pc # "abort")

\* ESC, ESC, SOF have been signalled and the poll after them is due
C11_Witness ==
  /\ sn >= 1 /\ idleAtCall
  /\ BytesOf(signals, sn) = <<ESC, ESC, SOF>>
  /\ dpc = "poll"
  /\ parse.pc = "L175"

\* C12: between two calls the pending-signal slot is empty, and when the last
\* call was SendSignal(b) the byte the parser took last is b: every SendSignal
\* finds the slot empty and its byte is consumed before it returns.
C12_ConsumedSynchronously ==
  /\ parse.mRecentSignal = <<>>
  /\ (api.lastSignal # <<>> => parse.tmp = api.lastSignal)

\* a byte signalled, polled, and another byte signalled and consumed
C12_Witness ==
  /\ api.lastOp = "signal" /\ api.prevOp = "poll"
  /\ api.resumedFrom \in AwaitPoints
  /\ parse.tmp = api.lastSignal
  /\ parse.mRecentSignal = <<>>

\* a byte signalled while the parser is suspended at the yield is taken at
\* line 175 as the first byte between frames
C13_ByteAfterYield ==
  (dpc = "signal" /\ parse.pc = "L191") =>
    /\ parse'.tmp = stream.mValue
    /\ parse'.mRecentSignal = <<>>
    /\ parse'.frame = <<>>
    /\ parse'.pc = IF stream.mValue = <<ESC>> THEN "L179" ELSE "L175"

\* a call over ESC SOF D1 ESC SOF ESC SOF D2 ESC SOF, begun between frames,
\* has yielded and handled exactly D1 and D2, in that order
C13_BackToBack ==
  (Returned /\ idleAtCall /\ Len(streams[sn]) >= 10) =>
    \A D1 \in FrameData, D2 \in FrameData :
      streams[sn] = Framed(D1) \o Framed(D2) =>
        /\ FrameBytes(FramesOf(handled, sn)) = <<D1, D2>>
        /\ FrameBytes(FramesOf(emitted, sn)) = <<D1, D2>>

\* C13: the byte signalled right after a frame was emitted resumes the parser
\* from the yield and is processed as the first byte received in Idle; two
\* frames back to back yield exactly the two frames, in order.
C13_NoByteLostAfterFrame ==
  /\ [][C13_ByteAfterYield]_vars
  /\ []C13_BackToBack

C13_Witness ==
  /\ Returned /\ sn = 1
  /\ streams[1] = Framed(<<B70, SOF>>) \o Framed(<<B99>>)
  /\ Len(handled) = 2

\* the entries of a log whose frame is not empty
NonEmptyFrames(log) == SelectSeq(log, LAMBDA e : e.frame # <<>>)

\* while the parser is suspended at the yield, the frame it yielded is in
\* mValue until the poll that follows the SendSignal and in res after it, and
\* the byte signalled last is the closing SOF
C14_FrameAtOnce ==
  parse.pc = "L191" =>
    /\ emitted # <<>> /\ signals # <<>>
    /\ signals[Len(signals)].byte = SOF
    /\ emitted[Len(emitted)].frame = parse.frame
    /\ IF dpc = "poll"
       THEN parse.mValue = parse.frame
       ELSE parse.mValue = <<>> /\ res = parse.frame

\* the frames handled are the non-empty frames emitted, in the order emitted,
\* once the poll after each SendSignal is done
C14_InOrder ==
  dpc \in {"incr", "test", "signal", "main", "done"} => handled = NonEmptyFrames(emitted)

\* C14: the poll right after the SendSignal of a closing SOF returns the
\* frame; frames are handled in the order of their closing sequences; one
\* SendSignal completes at most one frame.
C14_SameStep ==
  /\ []C14_FrameAtOnce
  /\ []C14_InOrder
  /\ [][Len(emitted') <= Len(emitted) + 1]_vars

\* the second frame of a stream is in res right after its closing SOF
C14_Witness ==
  /\ parse.pc = "L191" /\ dpc = "handle"
  /\ Len(emitted) = 2
  /\ res = emitted[2].frame
  /\ Len(handled) = 1

\* C15: what the parser received before it was between frames (bytes
\* discarded in Idle, an earlier frame, a frame given up as out of sync)
\* leaves no trace in later frames: a call begun between frames handles the
\* frames a new parser would handle for the same stream, and every byte of an
\* emitted frame was signalled between that frame's opening ESC SOF and its
\* closing ESC SOF.
C15_NoLeak ==
  /\ (Returned /\ idleAtCall) =>
       FramesOf(handled, sn) =
         ProcessStreamOp([parse |-> NewParse, frames |-> <<>>], streams[sn]).frames
  /\ parse.pc = "L191" =>
       /\ Len(raw) >= 4
       /\ \A k \in 1..Len(parse.frame) :
            \E j \in 3..(Len(raw) - 2) : ToByte(parse.frame[k]) = raw[j]

\* a frame handled after an earlier frame of another content
C15_Witness ==
  /\ Returned /\ sn = 2 /\ idleAtCall
  /\ streams[1] = <<ESC, SOF, B70, ESC, SOF>>
  /\ handled = <<[call |-> 1, frame |-> <<ToChar(B70)>>],
                 [call |-> 2, frame |-> <<ToChar(B99)>>]>>

\* C16: for every non-empty data sequence D over all byte values, ESC and SOF
\* included, a call begun between frames over ESC, SOF, D with every ESC
\* doubled, ESC, SOF yields exactly one frame and hands exactly one frame to
\* HandleFrame, equal to D byte for byte.
C16_StuffRoundTrip ==
  (Returned /\ idleAtCall) =>
    \A D \in AnyData :
      streams[sn] = Framed(Stuff(D)) =>
        /\ FrameBytes(FramesOf(emitted, sn)) = <<D>>
        /\ FrameBytes(FramesOf(handled, sn)) = <<D>>

\* data made of the two marker bytes, after an earlier frame
C16_Witness ==
  /\ Returned /\ sn = 2 /\ idleAtCall
  /\ streams[2] = Framed(Stuff(<<ESC, SOF>>))
  /\ streams[1] = <<ESC, SOF, B70, ESC, SOF>>
  /\ FrameBytes(FramesOf(handled, 2)) = <<<<ESC, SOF>>>>

\* the points at which Parse can be suspended without being done
Suspended == {"initial", "L191"} \cup AwaitPoints

\* C17: the assert of await_resume never fails: wherever the coroutine was
\* resumed (at the initial suspend, at a co_await, at the yield), the slot
\* held the byte that await_resume returned.
C17_AssertHolds ==
  /\ parse.pc # "abort"
  /\ (api.lastOp = "signal" =>
        /\ api.resumedFrom \in Suspended
        /\ parse.tmp # <<>>
        /\ parse.tmp = api.lastSignal)

\* a SendSignal resumed the coroutine at the yield
C17_Witness ==
  /\ api.lastOp = "signal"
  /\ api.resumedFrom = "L191"
  /\ parse.pc \in AwaitPoints
  /\ parse.tmp = api.lastSignal

\* C18: the Parse coroutine is always suspended and never done: at the initial
\* suspend before the first SendSignal, at a co_await or at the yield after
\* it; the guard of SendSignal is true at every call and the byte is taken.
C18_NeverDone ==
  /\ ~done(parse)
  /\ parse.pc \in Suspended
  /\ (api.lastSignal # <<>> => parse.pc \in AwaitPoints \cup {"L191"})
  /\ (api.lastSignal = <<>> => parse.pc = "initial")
  /\ (api.lastOp = "signal" => parse.mRecentSignal = <<>>)

\* a frame was given up as out of sync and the parser waits for the next byte
C18_Witness ==
  /\ api.lastOp = "signal"
  /\ api.resumedFrom = "L188"
  /\ api.lastSignal \in {<<B70>>, <<B99>>}
  /\ parse.pc = "L175"
  /\ ~done(parse)

TypeOK ==
  /\ dpc \in {"main", "begin", "test", "signal", "poll", "handle", "incr", "done", "api"}
  /\ parse.pc \in {"initial", "L175", "L179", "L184", "L188", "L191"}

====
